---- MODULE Spec2Model ----
(***************************************************************************)
(* State-machine model of bentoml/onnx.py: the model store records written *)
(* by save(), the checks done by load() and _ONNXRunner.__init__, the      *)
(* session opened by load() and _ONNXRunner._setup, and the replica /      *)
(* concurrency numbers the Runner reports.                                 *)
(*                                                                         *)
(* Python values are records with the fields ty, s, items:                 *)
(*   None            [ty |-> "None"]                                       *)
(*   "name"          [ty |-> "str",   s |-> "name"]                        *)
(*   (a, b)          [ty |-> "tuple", items |-> <<a, b>>]                  *)
(*   [a, b]          [ty |-> "list",  items |-> <<a, b>>]                  *)
(*   {...}           [ty |-> "dict",  s |-> an opaque label]               *)
(* A filesystem path is a sequence of components, a component a sequence   *)
(* of strings, so that os.path.join is Append and never the identity.      *)
(*                                                                         *)
(* load_runner() only forwards its arguments to _ONNXRunner and is the     *)
(* Construct action.  sess_opts, batch_options and metadata are passed     *)
(* through unread and are left out, as are required_models and the empty   *)
(* _run_batch.                                                             *)
(***************************************************************************)
EXTENDS Integers, Sequences, FiniteSets, TLC

VARIABLES
    store,      \* model_store: tag -> record (exists, module, path)
    files,      \* the paths of the files that exist on disk
    avail,      \* what onnxruntime.get_available_providers() returns now
    runner,     \* the one _ONNXRunner object and the arguments it was built from
    lastLoad,   \* the outcome of the most recent load() call
    opens,      \* every onnxruntime.InferenceSession(...) call made, in order
    ctx,        \* per execution context: where it is inside runner._setup()
    topology    \* what the scheduler last read from the Runner's properties

vars == <<store, files, avail, runner, lastLoad, opens, ctx, topology>>

---------------------------------------------------------------------------
(* Bounds of the model *)

MaxOpens == 2
NumContexts == 2
MaxProviders == 2
MaxCpuTenths == 45
MaxGpus == 2

---------------------------------------------------------------------------
(* Python values *)

PyNone == [ty |-> "None", s |-> "", items |-> <<>>]
PyStr(n) == [ty |-> "str", s |-> n, items |-> <<>>]
PyDict(label) == [ty |-> "dict", s |-> label, items |-> <<>>]
PyTuple(xs) == [ty |-> "tuple", s |-> "", items |-> xs]
PyList(xs) == [ty |-> "list", s |-> "", items |-> xs]

\* Python truthiness of None, a list, a tuple or a str, as `if providers:` uses it.
Truthy(v) ==
    CASE v.ty = "None" -> FALSE
      [] v.ty \in {"list", "tuple"} -> Len(v.items) > 0
      [] v.ty = "str" -> v.s /= ""
      [] OTHER -> TRUE

\* `x in lst` for a Python list held as a sequence.
PyIn(x, seq) == \E j \in 1..Len(seq) : seq[j] = x

---------------------------------------------------------------------------
(* Module constants *)

MODULE_NAME == "bentoml.onnx"
SAVE_NAMESPACE == "SAVE_NAMESPACE"
ONNX_EXT == ".onnx"
SUPPORTED_ONNX_BACKEND == <<"onnxruntime", "onnxruntime-gpu">>

\* f"{SAVE_NAMESPACE}{ONNX_EXT}": one path component
ModelFileName == <<SAVE_NAMESPACE, ONNX_EXT>>

\* os.path.join(a, b) for a relative component b
PathJoin(a, b) == Append(a, b)

\* onnxruntime.get_all_providers(): the registered catalogue
AllProviders ==
    << PyStr("TensorrtExecutionProvider"),
       PyStr("CUDAExecutionProvider"),
       PyStr("CPUExecutionProvider") >>

\* the values onnxruntime.get_available_providers() can take on a host
AvailableChoices ==
    { << PyStr("CPUExecutionProvider") >>,
      << PyStr("CUDAExecutionProvider"), PyStr("CPUExecutionProvider") >> }

---------------------------------------------------------------------------
(* helper methods *)

\* _yield_first_val without the tuple branch: a pair yields both its components
YieldFirstValNoTupleBranch(iterable) ==
    IF iterable.ty = "str" THEN << iterable >>
    ELSE iterable.items

\* _yield_first_val: the values the generator yields, as a sequence
YieldFirstVal(iterable) ==
    IF iterable.ty = "tuple" THEN << iterable.items[1] >>
    ELSE IF iterable.ty = "str" THEN << iterable >>
    ELSE iterable.items

RECURSIVE FlattenItems(_)
FlattenItems(xs) ==
    IF xs = <<>> THEN <<>>
    ELSE YieldFirstVal(Head(xs)) \o FlattenItems(Tail(xs))

\* flatten_list: [err, val]
FlattenList(lst) ==
    IF lst.ty /= "list"
    THEN [err |-> "AttributeError", val |-> <<>>]
    ELSE [err |-> "", val |-> FlattenItems(lst.items)]

---------------------------------------------------------------------------
(* The model store and the disk *)

Tags == {"m1", "sk"}
ForeignTag == "sk"
ForeignModule == "bentoml.sklearn"

\* the directory the registry assigns to a tag (model_info.path, ctx.path)
StorePath(tag) == << <<"models">>, <<tag>> >>

PyPath(p) == [ty |-> "path", s |-> "", items |-> p]
PyBytes(label) == [ty |-> "bytes", s |-> label, items |-> <<>>]
PyModelProto(label) == [ty |-> "ModelProto", s |-> label, items |-> <<>>]

\* isinstance(x, onnx.ModelProto)
IsModelProto(x) == x.ty = "ModelProto"

\* model.SerializeToString()
SerializeToString(m) == PyBytes(m.s)

\* a model file the caller of save() has on disk, and one it does not have
UserModelFile == << <<"tmp">>, <<"net", ".onnx">> >>
MissingModelFile == << <<"tmp">>, <<"gone", ".onnx">> >>

NoRecord == [exists |-> FALSE, module |-> "", path |-> <<>>]

\* _get_model_info without the module comparison
GetModelInfoNoOriginCheck(tag) ==
    [err |-> "",
     model_file |-> PyPath(PathJoin(store[tag].path, ModelFileName))]

\* _get_model_info: [err, model_file]
GetModelInfo(tag) ==
    LET model_info == store[tag] IN
    IF model_info.module /= MODULE_NAME
    THEN [err |-> "RegistryMismatch", model_file |-> PyNone]
    ELSE [err |-> "",
          model_file |-> PyPath(PathJoin(model_info.path, ModelFileName))]

\* the backend compared with the first supported name only
BackendUnsupportedFirstOnly(backend) ==
    SUPPORTED_ONNX_BACKEND[1] /= backend

\* `backend not in SUPPORTED_ONNX_BACKEND`
BackendUnsupported(backend) ==
    ~ \E j \in 1..Len(SUPPORTED_ONNX_BACKEND) : SUPPORTED_ONNX_BACKEND[j] = backend

\* the provider block defaulting to get_all_providers()
CheckProvidersDefaultAll(providers, available) ==
    IF Truthy(providers)
    THEN LET flat == FlattenList(providers) IN
         IF flat.err /= ""
         THEN [err |-> flat.err, providers |-> PyNone]
         ELSE IF \A j \in 1..Len(flat.val) : PyIn(flat.val[j], AllProviders)
         THEN [err |-> "", providers |-> providers]
         ELSE [err |-> "UnrecognizedProvider", providers |-> PyNone]
    ELSE [err |-> "", providers |-> PyList(AllProviders)]

\* the `if providers: ... else: ...` block: [err, providers]
CheckProviders(providers, available) ==
    IF Truthy(providers)
    THEN LET flat == FlattenList(providers) IN
         IF flat.err /= ""
         THEN [err |-> flat.err, providers |-> PyNone]
         ELSE IF \A j \in 1..Len(flat.val) : PyIn(flat.val[j], AllProviders)
         THEN [err |-> "", providers |-> providers]
         ELSE [err |-> "UnrecognizedProvider", providers |-> PyNone]
    ELSE [err |-> "", providers |-> PyList(available)]

\* the checks with the provider block's membership test left out
ChecksProvidersUnchecked(tag, backend, providers) ==
    LET info == GetModelInfo(tag) IN
    IF info.err /= ""
    THEN [err |-> info.err, model_file |-> PyNone, providers |-> PyNone]
    ELSE IF BackendUnsupported(backend)
    THEN [err |-> "UnsupportedBackend", model_file |-> PyNone, providers |-> PyNone]
    ELSE [err |-> "", model_file |-> info.model_file,
          providers |-> IF Truthy(providers) THEN providers ELSE PyList(avail)]

\* the statements of load() and of __init__ up to the provider block:
\* [err, model_file, providers]
Checks(tag, backend, providers) ==
    LET info == GetModelInfo(tag) IN
    IF info.err /= ""
    THEN [err |-> info.err, model_file |-> PyNone, providers |-> PyNone]
    ELSE IF BackendUnsupported(backend)
    THEN [err |-> "UnsupportedBackend", model_file |-> PyNone, providers |-> PyNone]
    ELSE LET p == CheckProviders(providers, avail) IN
         IF p.err /= ""
         THEN [err |-> p.err, model_file |-> PyNone, providers |-> PyNone]
         ELSE [err |-> "", model_file |-> info.model_file, providers |-> p.providers]

\* what load() and _setup hand to onnxruntime.InferenceSession for a model_file
SessionTarget(model_file) ==
    IF IsModelProto(model_file)
    THEN SerializeToString(model_file)
    ELSE PyPath(PathJoin(model_file.items, ModelFileName))

\* onnxruntime.InferenceSession(target, ...): does the runtime get a model?
SessionOpens(target) ==
    IF target.ty = "path" THEN target.items \in files ELSE TRUE

Invocation(by, tag, backend, req, availAt, target, providers) ==
    [by |-> by, tag |-> tag, backend |-> backend, req |-> req, availAt |-> availAt,
     target |-> target, providers |-> providers, ok |-> SessionOpens(target)]

---------------------------------------------------------------------------
(* Resource quota and the Runner's topology properties *)

Quota(cpu_tenths, ngpus) == [cpu_tenths |-> cpu_tenths, gpus |-> [i \in 1..ngpus |-> i - 1]]

\* resource_quota.on_gpu
on_gpu(q) == Len(q.gpus) > 0

\* Python's round() of cpu_tenths / 10: to the nearest integer, ties to even
PyRound(cpu_tenths) ==
    LET q == cpu_tenths \div 10
        r == cpu_tenths % 10
    IN  IF r < 5 THEN q
        ELSE IF r > 5 THEN q + 1
        ELSE IF q % 2 = 0 THEN q ELSE q + 1

num_concurrency_per_replica(q) ==
    IF on_gpu(q) THEN 1 ELSE PyRound(q.cpu_tenths)

\* num_replica returning the CPU answer on every quota
num_replica_always_one(q) == 1

num_replica(q) ==
    IF on_gpu(q) THEN Len(q.gpus) ELSE 1

---------------------------------------------------------------------------
(* Initial state *)

NoRunner ==
    [state |-> "none", tag |-> "", backend |-> "", req |-> PyNone, availAt |-> <<>>,
     err |-> "", _model_file |-> PyNone, _backend |-> "", _providers |-> PyNone,
     _model |-> 0, resource_quota |-> Quota(0, 0)]

NoLoad ==
    [state |-> "none", tag |-> "", backend |-> "", req |-> PyNone,
     err |-> "", session |-> 0]

Contexts == 1..NumContexts

IdleContext == [pc |-> "idle", ok |-> FALSE, sess |-> 0]

NoTopology == [read |-> FALSE, num_replica |-> 0, num_concurrency_per_replica |-> 0]

Init ==
    /\ store = [t \in Tags |->
                  IF t = ForeignTag
                  THEN [exists |-> TRUE, module |-> ForeignModule, path |-> StorePath(t)]
                  ELSE NoRecord]
    /\ files = { PathJoin(StorePath(ForeignTag), <<SAVE_NAMESPACE, ".pkl">>),
                 UserModelFile }
    /\ avail \in AvailableChoices
    /\ runner = NoRunner
    /\ lastLoad = NoLoad
    /\ opens = <<>>
    /\ ctx = [t \in Contexts |-> IdleContext]
    /\ topology = NoTopology

---------------------------------------------------------------------------
(* Operations *)

\* save(name, model): register the tag and write the model file.  A copy from a
\* source that does not exist raises inside the register() context, which then
\* keeps nothing.
Save(name, model) ==
    /\ ~ store[name].exists
    /\ LET path == StorePath(name)
           registered == [store EXCEPT ![name] =
                            [exists |-> TRUE, module |-> MODULE_NAME, path |-> path]]
       IN  IF IsModelProto(model)
           THEN /\ files' = files \cup { PathJoin(path, ModelFileName) }
                /\ store' = registered
           ELSE IF model.items \in files
           THEN /\ files' = files \cup { PathJoin(path, ModelFileName) }
                /\ store' = registered
           ELSE /\ files' = files
                /\ store' = store
    /\ UNCHANGED <<avail, runner, lastLoad, opens, ctx, topology>>

\* the host's usable providers change between calls
HostChange ==
    /\ avail' \in AvailableChoices \ {avail}
    /\ UNCHANGED <<store, files, runner, lastLoad, opens, ctx, topology>>

\* load(tag, backend, providers)
Load(tag, backend, providers) ==
    /\ store[tag].exists
    /\ LET c == Checks(tag, backend, providers) IN
       IF c.err /= ""
       THEN /\ lastLoad' = [state |-> "raised", tag |-> tag, backend |-> backend,
                            req |-> providers, err |-> c.err, session |-> 0]
            /\ opens' = opens
       ELSE LET inv == Invocation("load", tag, backend, providers, avail,
                                  SessionTarget(c.model_file), c.providers) IN
            /\ Len(opens) < MaxOpens
            /\ opens' = Append(opens, inv)
            /\ lastLoad' =
                 IF inv.ok
                 THEN [state |-> "returned", tag |-> tag, backend |-> backend,
                       req |-> providers, err |-> "", session |-> Len(opens) + 1]
                 ELSE [state |-> "raised", tag |-> tag, backend |-> backend,
                       req |-> providers, err |-> "SessionLoad", session |-> 0]
    /\ UNCHANGED <<store, files, avail, runner, ctx, topology>>

\* _ONNXRunner(tag, backend, providers, resource_quota=quota)
Construct(tag, backend, providers, quota) ==
    /\ runner.state = "none"
    /\ store[tag].exists
    /\ LET c == Checks(tag, backend, providers) IN
       runner' =
         IF c.err /= ""
         THEN [NoRunner EXCEPT !.state = "raised", !.tag = tag, !.backend = backend,
                               !.req = providers, !.availAt = avail, !.err = c.err]
         ELSE [state |-> "constructed", tag |-> tag, backend |-> backend,
               req |-> providers, availAt |-> avail, err |-> "",
               _model_file |-> c.model_file, _backend |-> backend,
               _providers |-> c.providers, _model |-> 0,
               resource_quota |-> quota]
    /\ UNCHANGED <<store, files, avail, lastLoad, opens, ctx, topology>>

\* runner._setup(), first half: the InferenceSession(...) call
SetupCall(t) ==
    /\ runner.state = "constructed"
    /\ ctx[t].pc = "idle"
    /\ Len(opens) < MaxOpens
    /\ LET inv == Invocation("setup", runner.tag, runner.backend, runner.req,
                             runner.availAt, SessionTarget(runner._model_file),
                             runner._providers) IN
       /\ opens' = Append(opens, inv)
       /\ ctx' = [ctx EXCEPT ![t] =
                    [pc |-> "called", ok |-> inv.ok,
                     sess |-> IF inv.ok THEN Len(opens) + 1 ELSE 0]]
    /\ UNCHANGED <<store, files, avail, runner, lastLoad, topology>>

\* runner._setup(), second half: `self._model = ...`, or the error propagates
SetupReturn(t) ==
    /\ ctx[t].pc = "called"
    /\ runner' = IF ctx[t].ok THEN [runner EXCEPT !._model = ctx[t].sess] ELSE runner
    /\ ctx' = [ctx EXCEPT ![t] = IdleContext]
    /\ UNCHANGED <<store, files, avail, lastLoad, opens, topology>>

\* the scheduler reads num_replica and num_concurrency_per_replica
ReadTopology ==
    /\ runner.state = "constructed"
    /\ topology' = [read |-> TRUE,
                    num_replica |-> num_replica(runner.resource_quota),
                    num_concurrency_per_replica |->
                        num_concurrency_per_replica(runner.resource_quota)]
    /\ UNCHANGED <<store, files, avail, runner, lastLoad, opens, ctx>>

---------------------------------------------------------------------------
(* Inputs *)

Names == Tags \ {ForeignTag}
Models == { PyModelProto("net"), PyPath(UserModelFile), PyPath(MissingModelFile) }
Backends == {"onnxruntime", "onnxruntime-gpu", "tensorrt"}
ProviderNames == {"CPUExecutionProvider", "CUDAExecutionProvider", "BogusExecutionProvider"}

\* life-cycle runs: a supported and an unsupported backend, a few provider arguments
FewBackends == {"onnxruntime", "tensorrt"}

FewProviders ==
    { PyNone, PyList(<<>>),
      PyList(<< PyStr("BogusExecutionProvider") >>) }

DefaultQuota == Quota(10, 0)

SeqsUpTo(S, n) == UNION { [1..k -> S] : k \in 0..n }

\* the elements of a provider list: a name, a (name, options) pair, a list of names
ProviderElems ==
    { PyStr(n) : n \in ProviderNames }
    \cup { PyTuple(<< PyStr(n), PyDict("opts") >>) : n \in ProviderNames }
    \cup { PyList(xs) : xs \in SeqsUpTo({ PyStr(n) : n \in ProviderNames }, 2) }

\* validation runs: None, a bare string, and every list of up to MaxProviders elements
ManyProviders ==
    { PyNone, PyStr("CPUExecutionProvider") }
    \cup { PyList(xs) : xs \in SeqsUpTo(ProviderElems, MaxProviders) }

Quotas == { Quota(c, g) : c \in 0..MaxCpuTenths, g \in 0..MaxGpus }

---------------------------------------------------------------------------
(* Specifications *)

\* the life cycle: save, load, construct, activate from several contexts
Next ==
    \/ \E name \in Names, model \in Models : Save(name, model)
    \/ HostChange
    \/ \E tag \in Tags, backend \in FewBackends, providers \in FewProviders :
          Load(tag, backend, providers)
    \/ \E tag \in Tags, backend \in FewBackends, providers \in FewProviders :
          Construct(tag, backend, providers, DefaultQuota)
    \/ \E t \in Contexts : SetupCall(t)
    \/ \E t \in Contexts : SetupReturn(t)

Spec == Init /\ [][Next]_vars

\* validation: one load() or one construction, over every backend and provider
\* argument, and the activations that follow
NoCallYet == lastLoad.state = "none" /\ runner.state = "none"

NextValidate ==
    \/ \E name \in Names, model \in Models : Save(name, model)
    \/ NoCallYet /\ \E tag \in Tags, backend \in Backends, providers \in ManyProviders :
                      Load(tag, backend, providers)
    \/ NoCallYet /\ \E tag \in Tags, backend \in Backends, providers \in ManyProviders :
                      Construct(tag, backend, providers, DefaultQuota)
    \/ \E t \in Contexts : SetupCall(t)
    \/ \E t \in Contexts : SetupReturn(t)

SpecValidate == Init /\ [][NextValidate]_vars

\* topology: a Runner built with every quota, then read by the scheduler
NextTopology ==
    \/ \E name \in Names, model \in Models : Save(name, model)
    \/ \E q \in Quotas : Construct("m1", "onnxruntime", PyNone, q)
    \/ ReadTopology

SpecTopology == Init /\ [][NextTopology]_vars

---------------------------------------------------------------------------
(* What the claims speak of, stated apart from the operations above *)

SupportedNames == {"onnxruntime", "onnxruntime-gpu"}
KnownNames == { AllProviders[j].s : j \in 1..Len(AllProviders) }

\* the record's module origin is this adapter
OriginMatches(tag) == store[tag].exists /\ store[tag].module = MODULE_NAME

\* the provider argument is None or []
Absent(req) == req = PyNone \/ req = PyList(<<>>)

\* the names of one provider element: the name itself, the first component of
\* a pair, each member of a nested sequence
ElemNames(e) ==
    CASE e.ty = "str" -> { e.s }
      [] e.ty = "tuple" -> { e.items[1].s }
      [] OTHER -> { e.items[j].s : j \in 1..Len(e.items) }

FlatNames(req) == UNION { ElemNames(req.items[j]) : j \in 1..Len(req.items) }

\* the two API calls the checks belong to, as records of one shape
TheRunnerCall ==
    IF runner.state = "none" THEN {}
    ELSE {[by |-> "init", tag |-> runner.tag, backend |-> runner.backend,
           req |-> runner.req, err |-> runner.err,
           passed |-> runner.state = "constructed"]}

TheLoadCall ==
    IF lastLoad.state = "none" THEN {}
    ELSE {[by |-> "load", tag |-> lastLoad.tag, backend |-> lastLoad.backend,
           req |-> lastLoad.req, err |-> lastLoad.err,
           passed |-> lastLoad.err \in {"", "SessionLoad"}]}

Calls == TheRunnerCall \cup TheLoadCall

SetupOpens == { i \in DOMAIN opens : opens[i].by = "setup" }
InSetup == { t \in Contexts : ctx[t].pc = "called" }

---------------------------------------------------------------------------
(* C1: the file that load(tag) and _setup hand to the runtime is the file    *)
(* save() wrote: <storage_path>/<SAVE_NAMESPACE>.onnx, directly inside the  *)
(* record's storage directory, a file that exists on disk.                  *)
C1_OpenedFileIsSavedFile ==
    \A i \in DOMAIN opens :
        /\ opens[i].target = PyPath(PathJoin(store[opens[i].tag].path, ModelFileName))
        /\ opens[i].target.items \in files

(* C2: activation is idempotent-once: the runtime's open_session is invoked *)
(* at most once per Runner, however many times setup is called.             *)
C2_OpenSessionAtMostOncePerRunner ==
    Cardinality(SetupOpens) <= 1

(* C3: when two or more contexts are inside setup on the same Runner at the *)
(* same time, the calls are serialized: only one of them has called         *)
(* open_session, and exactly one session load has occurred.                 *)
C3_ConcurrentSetupLoadsOnce ==
    Cardinality(InSetup) >= 2 => Cardinality(SetupOpens) = 1

(* C4: with no GPUs the Runner reports num_replica = 1 and                  *)
(* num_concurrency_per_replica = round(cpu) with a floor of 1, so never     *)
(* below 1.                                                                 *)
C4_CpuConcurrencyFloorOne ==
    (topology.read /\ Len(runner.resource_quota.gpus) = 0) =>
        LET rounded == PyRound(runner.resource_quota.cpu_tenths) IN
        /\ topology.num_replica = 1
        /\ topology.num_concurrency_per_replica = (IF rounded < 1 THEN 1 ELSE rounded)
        /\ topology.num_concurrency_per_replica >= 1

(* C10: with a non-empty GPU list the Runner reports num_replica = len(gpus) *)
(* and num_concurrency_per_replica = 1, whatever the cpu value.             *)
C10_GpuTopology ==
    (topology.read /\ Len(runner.resource_quota.gpus) > 0) =>
        /\ topology.num_replica = Len(runner.resource_quota.gpus)
        /\ topology.num_concurrency_per_replica = 1

C10_Witness ==
    /\ topology.read
    /\ runner.resource_quota.cpu_tenths = 10
    /\ Len(runner.resource_quota.gpus) = 2
    /\ topology.num_replica = 2
    /\ topology.num_concurrency_per_replica = 1

---------------------------------------------------------------------------
(* C5: a record whose module origin differs from this adapter's makes both  *)
(* load(tag) and Runner construction fail with the registry-mismatch error, *)
(* with nothing of the validation stored and no session opened; no Runner   *)
(* in a validated or loaded state exists for such a record.                 *)
C5_RegistryMismatchRejected ==
    /\ \A c \in Calls :
          ~ OriginMatches(c.tag) => (~ c.passed /\ c.err = "RegistryMismatch")
    /\ (runner.state /= "none" /\ ~ OriginMatches(runner.tag)) =>
          /\ runner.state = "raised"
          /\ runner._model_file = PyNone
          /\ runner._backend = ""
          /\ runner._providers = PyNone
          /\ runner._model = 0
    /\ (lastLoad.state /= "none" /\ ~ OriginMatches(lastLoad.tag)) =>
          lastLoad.session = 0
    /\ \A i \in DOMAIN opens : OriginMatches(opens[i].tag)

C5_Witness ==
    /\ runner.state = "raised" /\ runner.tag = ForeignTag
    /\ runner.backend = "onnxruntime" /\ runner.err = "RegistryMismatch"
    /\ lastLoad.state = "raised" /\ lastLoad.tag = ForeignTag
    /\ lastLoad.backend = "tensorrt" /\ lastLoad.err = "RegistryMismatch"

(* C6 as stated: every backend name outside the two supported ones makes    *)
(* load(tag) and Runner construction fail with the unsupported-backend      *)
(* error, whatever the provider list (and whatever the record).             *)
C6_UnsupportedBackendAlwaysThatError ==
    \A c \in Calls :
        c.backend \notin SupportedNames =>
            (~ c.passed /\ c.err = "UnsupportedBackend")

(* C6 as amended: for a record whose module origin matches, every backend   *)
(* name outside the two supported ones makes load(tag) and Runner           *)
(* construction fail with the unsupported-backend error, whatever the       *)
(* provider list; with any record such a call fails and opens no session;   *)
(* for the two supported names the backend check never fails.               *)
C6_UnsupportedBackendRejected ==
    /\ \A c \in Calls :
          (OriginMatches(c.tag) /\ c.backend \notin SupportedNames) =>
              (~ c.passed /\ c.err = "UnsupportedBackend")
    /\ \A c \in Calls : c.backend \notin SupportedNames => ~ c.passed
    /\ \A c \in Calls : c.backend \in SupportedNames => c.err /= "UnsupportedBackend"
    /\ \A i \in DOMAIN opens : opens[i].backend \in SupportedNames

C6_Witness ==
    /\ runner.state = "raised" /\ runner.tag = "m1"
    /\ runner.backend = "tensorrt"
    /\ runner.req = PyList(<< PyStr("BogusExecutionProvider") >>)
    /\ runner.err = "UnsupportedBackend"
    /\ opens = <<>>

(* C7: for a non-empty provider list that reaches provider validation (the  *)
(* origin and backend checks passed), validation succeeds exactly when      *)
(* every flattened name is in the runtime's all-known catalogue, and fails  *)
(* with the unrecognized-provider error otherwise.                          *)
C7_ProviderValidation ==
    \A c \in Calls :
        ( /\ OriginMatches(c.tag)
          /\ c.backend \in SupportedNames
          /\ c.req.ty = "list" /\ Len(c.req.items) > 0 ) =>
            /\ c.passed <=> (FlatNames(c.req) \subseteq KnownNames)
            /\ ~ (FlatNames(c.req) \subseteq KnownNames) =>
                   c.err = "UnrecognizedProvider"

C7_Witness ==
    /\ runner.state = "constructed"
    /\ runner.req =
         PyList(<< PyList(<< PyStr("CUDAExecutionProvider"), PyStr("CPUExecutionProvider") >>),
                   PyTuple(<< PyStr("CPUExecutionProvider"), PyDict("opts") >>) >>)
    /\ runner._providers = runner.req

(* C8: when the provider list is None or [], the providers the Runner       *)
(* stores and the providers passed to the runtime are the runtime's         *)
(* available providers as reported when the call validated them, not the    *)
(* all-known catalogue.                                                     *)
C8_ProviderDefault ==
    /\ (runner.state = "constructed" /\ Absent(runner.req)) =>
          /\ runner._providers = PyList(runner.availAt)
          /\ runner._providers /= PyList(AllProviders)
    /\ \A i \in DOMAIN opens :
          Absent(opens[i].req) =>
              /\ opens[i].providers = PyList(opens[i].availAt)
              /\ opens[i].providers /= PyList(AllProviders)

C8_Witness ==
    /\ \E i \in SetupOpens :
          /\ opens[i].req = PyList(<<>>)
          /\ opens[i].providers = PyList(opens[i].availAt)
          /\ opens[i].availAt /= avail
    /\ \E i \in DOMAIN opens :
          /\ opens[i].by = "load"
          /\ opens[i].req = PyNone
          /\ opens[i].providers = PyList(avail)

(* C9: a session is opened only after the origin check, backend validation, *)
(* provider validation and artifact resolution of that Runner or load call  *)
(* have succeeded; construction itself opens no session; after a failed     *)
(* construction no session is ever opened for that Runner.                  *)
ChecksSucceeded(o) ==
    /\ OriginMatches(o.tag)
    /\ o.backend \in SupportedNames
    /\ \/ Absent(o.req)
       \/ o.req.ty = "list" /\ FlatNames(o.req) \subseteq KnownNames
    /\ o.target.ty = "path"
    /\ Len(o.target.items) > Len(store[o.tag].path)
    /\ SubSeq(o.target.items, 1, Len(store[o.tag].path)) = store[o.tag].path

C9_Step ==
    /\ \A i \in DOMAIN opens' :
          i \notin DOMAIN opens =>
              /\ ChecksSucceeded(opens'[i])
              /\ opens'[i].by = "setup" =>
                    (runner.state = "constructed" /\ runner.tag = opens'[i].tag)
    /\ runner'.state /= runner.state => opens' = opens
    /\ runner.state = "raised" => (runner' = runner /\ SetupOpens = {})

C9_LoadOrdering == [][C9_Step]_vars

C9_Witness ==
    /\ \E i \in SetupOpens : ChecksSucceeded(opens[i])
    /\ \E i \in DOMAIN opens : opens[i].by = "load" /\ ChecksSucceeded(opens[i])

====
